---- MODULE Spec2Model ----
(***************************************************************************)
(* State-machine model of the self-evolving test pipeline examples:        *)
(*   - TaskManager and MultiAgentOrchestrator   (multi-agent workflow)     *)
(*   - ParallelDevelopmentManager               (parallel development)     *)
(*   - NextJsTestAutomation                     (test / fix / re-test)     *)
(* An agent session is an event source: after a prompt is sent it emits    *)
(* assistant.message events and then session.idle or error; listeners      *)
(* registered with session.on run synchronously on each event, and the     *)
(* code awaiting a promise continues in a later step.                      *)
(***************************************************************************)
EXTENDS Integers, Sequences, FiniteSets, TLC

VARIABLES
    tasks,          \* TaskManager.tasks: the Map, as a sequence in insertion order
    logFile,        \* the log file: what kind of text it holds, and the task list of a
                    \* whole snapshot
    writeFailures,  \* number of fs.writeFile calls that have failed so far
    tmLast,         \* the last TaskManager call: which method, whether its id was
                    \* in the map, and how the call ended
    wpending,       \* the fs.writeFile calls started by calls that were not awaited, in the
                    \* order they were started: the text to write, and how far the write is
    inflight,       \* per session: prompts sent and not yet ended by idle / error
    lateIdle,       \* per session: an error event was emitted, session.idle may follow
    opc,            \* processProject: position in the code
    oqueue,         \* processProject: the array being iterated (readyTasks / testTasks)
    oidx,           \* processProject: index of the loop in progress
    owait,          \* processProject: the `done` promise of the call in progress
    oerr,           \* the calls (task id, or getTasks / finalReview) during which
                    \* the session emitted `error`
    pmap,           \* ParallelDevelopmentManager.tasks: the Map, in insertion order, as
                    \* references to the task objects it holds
    pheap,          \* the task objects, by reference (the id under which the object
                    \* was added, and a number that tells the objects of one id
                    \* apart): the Map and the lanes that hold an object see the
                    \* same fields
    pwhy,           \* per task object: what ended the wait of its executeTask call
    pcall,          \* the calls of executeTasksInParallel made so far: running / returned,
                    \* and per task type the executeTasksInSession loop and the promise
                    \* of the executeTask call in progress
    punprompted,    \* a lane's session emitted an event with no prompt in progress
    ncall,          \* the calls made on the object so far (runFullTestCycle by main,
                    \* generateTests by a caller of its own), each with its position
                    \* in the code, its locals (componentPaths.length, the index of
                    \* the generateTests loop, `report`, the runTests calls made, the
                    \* fix rounds begun, per failed test the state of its fix task,
                    \* the index of the fix loop, the tests of the fix prompts handed
                    \* over), the promise of its sendAndWait call in progress, what
                    \* it returned (`success`, `stats`), the session on which a
                    \* timeout of the call has left its prompt in progress, and
                    \* whether its sendAndWait call in progress began with such a
                    \* prompt in progress on its session
    nfile,          \* test-results.json: whether it exists, the results it holds, and
                    \* whether the last run of the test command wrote it
    nmain,          \* main of nextjs-test-automation: position, the client, the sessions
                    \* created / destroyed, the exit code of the process
    mkt             \* the marketing orchestrator: position of main, and per agent
                    \* session the runAgent call (position, listener, `done`, the
                    \* promise of session.send, `output`)

vars == << tasks, logFile, writeFailures, tmLast, wpending, inflight, lateIdle,
           opc, oqueue, oidx, owait, oerr,
           pmap, pheap, pwhy, pcall, punprompted,
           ncall, nmain, nfile, mkt >>

(***************************************************************************)
(* Bounds of the model.                                                    *)
(***************************************************************************)
MaxWriteFailures == 1
MaxPTasks == 2
MaxMsgs == 1
MaxComponents == 1
MaxTests == 2
MaxRuns == 3
MaxCalls == 2
MaxOverlap == 2

(***************************************************************************)
(* Values.                                                                 *)
(***************************************************************************)
Undefined == "undefined"
Contents == {"a", "b"}
Statuses == {"pending", "in-progress", "testing", "completed", "failed"}
OrchSessions == {"supervisor", "developer", "tester"}
Types == {"frontend", "backend", "database", "testing"}
TestSessions == {"testGenerator", "testRunner", "testFixer"}
MktSessions == {"strategist", "data_analyst", "compliance", "ops"}
Sessions == OrchSessions \cup Types \cup TestSessions \cup MktSessions

Range(s) == {s[i] : i \in 1..Len(s)}

\* A Task as the callers build it: result, startTime and endTime are not set.
Task(id, description, priority, assignedTo, dependencies) ==
    [id |-> id, description |-> description, priority |-> priority,
     assignedTo |-> assignedTo, status |-> "pending", dependencies |-> dependencies,
     result |-> Undefined, startTime |-> Undefined, endTime |-> Undefined]

\* The descriptions stand for the texts of the source.
sampleTasks ==
    << Task("T1", "user authentication module", "high", "developer", <<>>),
       Task("T2", "user database model", "high", "developer", <<>>),
       Task("T3", "unit tests of the authentication module", "high", "tester", <<"T1">>),
       Task("T4", "user registration API endpoint", "medium", "developer", <<"T2">>),
       Task("T5", "API integration tests", "medium", "tester", <<"T4">>) >>

(***************************************************************************)
(* A JavaScript Map keyed by task id: set() of a present key replaces the  *)
(* value in place, set() of a new key appends.                             *)
(***************************************************************************)
MapHas(m, id) == \E i \in 1..Len(m) : m[i].id = id
MapIndex(m, id) == CHOOSE i \in 1..Len(m) : m[i].id = id
MapGet(m, id) == m[MapIndex(m, id)]
MapSet(m, task) ==
    IF MapHas(m, task.id)
    THEN [m EXCEPT ![MapIndex(m, task.id)] = task]
    ELSE Append(m, task)

ObjectAssign(task, updates) ==
    [f \in DOMAIN task |-> IF f \in DOMAIN updates THEN updates[f] ELSE task[f]]

(***************************************************************************)
(* TaskManager.                                                            *)
(***************************************************************************)
addTask(m, task) == MapSet(m, task)

updateTask(m, id, updates) ==
    IF MapHas(m, id)
    THEN [m EXCEPT ![MapIndex(m, id)] = ObjectAssign(m[MapIndex(m, id)], updates)]
    ELSE m

getAllTasks(m) == m

\* Mutant: a dependency counts as soon as it is in the map.
DepPresent(m, depId) == MapHas(m, depId)

DepCompleted(m, depId) == MapHas(m, depId) /\ MapGet(m, depId).status = "completed"

IsReady(m, task) ==
    /\ task.status = "pending"
    /\ \A i \in 1..Len(task.dependencies) : DepCompleted(m, task.dependencies[i])

getReadyTasks(m) == SelectSeq(getAllTasks(m), LAMBDA t : IsReady(m, t))

\* The log file: no file, an empty file, the whole JSON text of a snapshot, or
\* bytes that do not parse (part of a text, or parts of two texts).
NoLog == [text |-> "none", tasks |-> <<>>]
Truncated == [text |-> "empty", tasks |-> <<>>]
Torn == [text |-> "torn", tasks |-> <<>>]
Whole(data) == [text |-> "json", tasks |-> data]

\* fs.writeFile opens the file with truncation, writes the text and closes:
\* it replaces the file content, or it fails (the call rejects) before the open
\* (the file is as before), after the open (the file is empty), during the
\* write (the file holds the first part of the text) or at the close (the
\* file holds the whole text).
WriteOutcomes ==
    {"ok"} \cup (IF writeFailures < MaxWriteFailures
                 THEN {"fail", "truncated", "partial", "unclosed"}
                 ELSE {})

\* JSON.stringify of the task array: a field whose value is undefined is left out.
OptionalFields == {"result", "startTime", "endTime"}

\* The fields that hold a Date object, and the Date that `new Date()` makes.
DateFields == {"startTime", "endTime"}

NewDate == "Date"

\* Date.prototype.toJSON: the Date becomes a string, the ISO text of its instant.
toISOString(d) == IF d = NewDate THEN "ISO text" ELSE d

JSONStringify(m) ==
    [i \in 1..Len(m) |->
        [f \in {g \in DOMAIN m[i] : ~(g \in OptionalFields /\ m[i][g] = Undefined)} |->
            IF f \in DateFields THEN toISOString(m[i][f]) ELSE m[i][f]]]

\* Reloading a snapshot is JSON.parse of the text: every value comes back as
\* JSON has it (a string stays a string, also the ISO text of a Date), and a
\* field that is not in the text reads as undefined.
TaskFields ==
    {"id", "description", "priority", "assignedTo", "status", "dependencies", "result",
     "startTime", "endTime"}

Reload(snapshot) ==
    [i \in 1..Len(snapshot) |->
        [f \in TaskFields |->
            IF f \in DOMAIN snapshot[i] THEN snapshot[i][f] ELSE Undefined]]

\* Mutant: a failed write is swallowed, the call returns.
EndedSilently(call, found, w) == [call |-> call, found |-> found, outcome |-> "returned"]

\* Mutant: the file is written before the map is changed.
saveLogBeforeChange(m, w) ==
    /\ logFile' = IF w = "ok" THEN Whole(JSONStringify(tasks)) ELSE logFile
    /\ writeFailures' = IF w = "ok" THEN writeFailures ELSE writeFailures + 1

\* await fs.writeFile(path, text), with no other write of the file in progress.
writeFile(data, w) ==
    /\ logFile' = CASE w \in {"ok", "unclosed"} -> Whole(data)
                    [] w = "fail" -> logFile
                    [] w = "truncated" -> Truncated
                    [] w = "partial" -> Torn
    /\ writeFailures' = IF w = "ok" THEN writeFailures ELSE writeFailures + 1

saveLog(m, w) == writeFile(JSONStringify(m), w)

\* How a call of addTask / updateTask ends: it returns once saveLog has written
\* the file, it rejects when fs.writeFile rejects, and updateTask of an id that
\* is not in the map returns without doing anything.
NoCall == [call |-> "none", found |-> FALSE, outcome |-> "none"]

Ended(call, found, w) ==
    [call |-> call, found |-> found, outcome |-> IF w = "ok" THEN "returned" ELSE "rejected"]

(***************************************************************************)
(* The agent sessions.                                                     *)
(***************************************************************************)
NoWait == [session |-> "none", state |-> "none", send |-> "none", result |-> "", value |-> ""]

NewWait(s) == [NoWait EXCEPT !.session = s, !.state = "pending"]

\* session.send({ prompt }): the prompt is handed to the agent service.
Send(s) == inflight' = [inflight EXCEPT ![s] = @ + 1]

\* The service ends the prompt in progress (session.idle, or error).
EndPrompt(s) == inflight' = [inflight EXCEPT ![s] = @ - 1]

tmVars == << tasks, logFile, writeFailures, tmLast, wpending >>
svcVars == << inflight, lateIdle >>
orchVars == << opc, oqueue, oidx, owait, oerr >>
parVars == << pmap, pheap, pwhy, pcall, punprompted >>
nxVars == << ncall, nmain, nfile >>
mktVars == << mkt >>

TMInit ==
    /\ tasks = <<>>
    /\ logFile = NoLog
    /\ writeFailures = 0
    /\ tmLast = NoCall
    /\ wpending = <<>>

SvcInit ==
    /\ inflight = [s \in Sessions |-> 0]
    /\ lateIdle = [s \in Sessions |-> FALSE]

OrchInit ==
    /\ opc = "start"
    /\ oqueue = <<>>
    /\ oidx = 0
    /\ owait = NoWait
    /\ oerr = {}

\* A lane before its call: the task objects queued, the index of the loop, and
\* the promise of the executeTask call in progress.
LaneOff ==
    [queue |-> <<>>, idx |-> 0, state |-> "off", output |-> <<>>, hasError |-> FALSE,
     timer |-> FALSE, result |-> <<>>, reason |-> ""]

\* No task object, before the first addTask.
NoObjects == [r \in {} |-> Undefined]

PIds == {"FE-001", "FE-002", "BE-001"}

ParInit ==
    /\ pmap = <<>>
    /\ pheap = NoObjects
    /\ pwhy = NoObjects
    /\ pcall = <<>>
    /\ punprompted = FALSE

NoReport == [totalTests |-> 0, passed |-> 0, failed |-> 0, skipped |-> 0, results |-> <<>>]

NoPromise ==
    [session |-> "none", state |-> "none", result |-> "", hasError |-> FALSE,
     timer |-> FALSE, send |-> "none", value |-> "", reason |-> "",
     stale |-> [s \in TestSessions |-> 0]]

\* main before `await testAutomation.initialize()`: nothing created yet, the
\* process is running.
NoMain == [pc |-> "start", client |-> "new", created |-> {}, destroyed |-> {}, exitCode |-> Undefined]

TestStatuses == {"passed", "failed", "skipped"}

\* What a run of the test suite may write to test-results.json: the status of
\* each of its tests.
JestResults == UNION {[1..n -> TestStatuses] : n \in 0..MaxTests}

\* No test-results.json in the project directory.
NoFile == [exists |-> FALSE, results |-> <<>>, fresh |-> FALSE]

\* test-results.json when the program starts: the project directory holds
\* none, or the one an earlier process has left there (nothing in the code
\* deletes the file, before a run or after).
ResultsFiles ==
    {NoFile} \cup {[exists |-> TRUE, results |-> r, fresh |-> FALSE] : r \in JestResults}

\* A call of runFullTestCycle that has not begun.
NoCycle ==
    [pc |-> "off", components |-> 0, comp |-> 0, report |-> NoReport, runs |-> 0,
     fixIter |-> 0, fix |-> <<>>, fixIdx |-> 0, wait |-> NoPromise, success |-> FALSE,
     sent |-> <<>>, stats |-> NoReport, orphan |-> "none", behind |-> FALSE]

NxInit ==
    /\ ncall = <<>>
    /\ nmain = NoMain
    /\ nfile \in ResultsFiles

NCalls == 1..Len(ncall)

\* The call that main awaits: the first.
nfirst == IF ncall = <<>> THEN NoCycle ELSE ncall[1]
npc == nfirst.pc
nreport == nfirst.report
nruns == nfirst.runs
nfixIter == nfirst.fixIter
nfix == nfirst.fix
nwait == nfirst.wait
nsuccess == nfirst.success
nsent == nfirst.sent
nstats == nfirst.stats

\* A runAgent call that has not begun.
NoAgent == [pc |-> "off", listening |-> FALSE, done |-> "none", send |-> "none", output |-> <<>>]

MktInit == mkt = [pc |-> "start", agent |-> [a \in MktSessions |-> NoAgent]]

Init == TMInit /\ SvcInit /\ OrchInit /\ ParInit /\ NxInit /\ MktInit

\* Only NextJsTestAutomation reads or writes test-results.json: the runs of the
\* other programs are taken in a directory without one.
InitNoResults == Init /\ nfile = NoFile

(***************************************************************************)
(* Calls of the TaskManager API, one at a time, by any caller.             *)
(***************************************************************************)
TaskInputs ==
    { Task("A", "build", "high", "developer", <<>>),
      Task("B", "extend", "medium", "developer", <<"A">>),
      Task("C", "test", "low", "tester", <<"A">>),
      Task("C", "test again", "high", "tester", <<"A", "B">>),
      Task("B", "", "medium", "developer", <<"B">>) }

UpdateIds == {"A", "B", "C"}

\* The statuses callers pass: no code of the program ever sets `testing`.
UpdateInputs == {[status |-> st] : st \in Statuses \ {"testing"}}

TMAddTask(task) ==
    /\ \E w \in WriteOutcomes :
          /\ tasks' = addTask(tasks, task)
          /\ saveLog(tasks', w)
          /\ tmLast' = Ended("addTask", MapHas(tasks, task.id), w)
    /\ UNCHANGED << nxVars, mktVars, parVars, svcVars, wpending, orchVars >>

TMUpdateTask(id, updates) ==
    /\ IF MapHas(tasks, id)
       THEN \E w \in WriteOutcomes :
                /\ tasks' = updateTask(tasks, id, updates)
                /\ saveLog(tasks', w)
                /\ tmLast' = Ended("updateTask", TRUE, w)
       ELSE /\ UNCHANGED << tasks, logFile, writeFailures >>
            /\ tmLast' = Ended("updateTask", FALSE, "ok")
    /\ UNCHANGED << nxVars, mktVars, parVars, svcVars, wpending, orchVars >>

\* saveLog is public: a caller writes the log without changing a task.
TMSaveLog ==
    /\ \E w \in WriteOutcomes :
          /\ saveLog(tasks, w)
          /\ tmLast' = Ended("saveLog", FALSE, w)
    /\ UNCHANGED << tasks, nxVars, mktVars, parVars, svcVars, wpending, orchVars >>

NextTM ==
    \/ \E task \in TaskInputs : TMAddTask(task)
    \/ \E id \in UpdateIds, updates \in UpdateInputs : TMUpdateTask(id, updates)
    \/ TMSaveLog

SpecTM == InitNoResults /\ [][NextTM]_vars

\* Calls of a caller that does not await: addTask / updateTask / saveLog run
\* up to `await fs.writeFile(...)` (the map is changed and the text of the file
\* is built); the open, the write and the close of every fs.writeFile in
\* progress happen later, on the thread pool, in any order among the calls,
\* and each call returns or rejects after its close.
StartWrite(call, found, m) ==
    Append(wpending,
           [call |-> call, found |-> found, data |-> JSONStringify(m), phase |-> "started",
            error |-> FALSE])

TMAddTaskBegin(task) ==
    /\ Len(wpending) < MaxOverlap
    /\ tasks' = addTask(tasks, task)
    /\ wpending' = StartWrite("addTask", MapHas(tasks, task.id), tasks')
    /\ UNCHANGED << logFile, writeFailures, tmLast, nxVars, mktVars, parVars, svcVars, orchVars >>

TMUpdateTaskBegin(id, updates) ==
    /\ Len(wpending) < MaxOverlap
    /\ IF MapHas(tasks, id)
       THEN /\ tasks' = updateTask(tasks, id, updates)
            /\ wpending' = StartWrite("updateTask", TRUE, tasks')
            /\ UNCHANGED tmLast
       ELSE /\ UNCHANGED << tasks, wpending >>
            /\ tmLast' = Ended("updateTask", FALSE, "ok")
    /\ UNCHANGED << logFile, writeFailures, nxVars, mktVars, parVars, svcVars, orchVars >>

TMSaveLogBegin ==
    /\ Len(wpending) < MaxOverlap
    /\ wpending' = StartWrite("saveLog", FALSE, tasks)
    /\ UNCHANGED << tasks, logFile, writeFailures, tmLast, nxVars, mktVars, parVars, svcVars, orchVars >>

\* The open of a write in progress: the file is truncated, or the open fails
\* (the file is as it was, nothing is left to write or close).
TMWriteOpen(i) ==
    /\ i \in 1..Len(wpending)
    /\ wpending[i].phase = "started"
    /\ \E w \in WriteOutcomes \cap {"ok", "fail"} :
          IF w = "ok"
          THEN /\ logFile' = Truncated
               /\ wpending' = [wpending EXCEPT ![i].phase = "opened"]
               /\ UNCHANGED writeFailures
          ELSE /\ wpending' = [wpending EXCEPT ![i].phase = "closed", ![i].error = TRUE]
               /\ writeFailures' = writeFailures + 1
               /\ UNCHANGED logFile
    /\ UNCHANGED << tasks, tmLast, nxVars, mktVars, parVars, svcVars, orchVars >>

\* The text of a write in progress is written from the start of the file. On
\* an empty file the file then holds the text. On a file into which another
\* call has written since this call's open, the text replaces as many bytes
\* as it has: the file holds this text if the text is at least as long
\* (covers), else this text followed by the end of the other. A write that
\* fails leaves the file as it is (nothing was written, covers) or with the
\* first part of its text.
TMWriteData(i, covers) ==
    /\ i \in 1..Len(wpending)
    /\ wpending[i].phase = "opened"
    /\ \E w \in WriteOutcomes \cap {"ok", "partial"} :
          /\ logFile' = IF w = "ok"
                        THEN IF logFile.text = "empty" \/ covers
                             THEN Whole(wpending[i].data) ELSE Torn
                        ELSE IF covers THEN logFile ELSE Torn
          /\ writeFailures' = IF w = "ok" THEN writeFailures ELSE writeFailures + 1
          /\ wpending' = [wpending EXCEPT ![i].phase = "written", ![i].error = (w # "ok")]
    /\ UNCHANGED << tasks, tmLast, nxVars, mktVars, parVars, svcVars, orchVars >>

\* The close of a write in progress, after the write or its failure: the file
\* keeps what it holds; a close that fails makes the call reject (unclosed).
TMWriteClose(i) ==
    /\ i \in 1..Len(wpending)
    /\ wpending[i].phase = "written"
    /\ \E w \in WriteOutcomes \cap {"ok", "unclosed"} :
          /\ wpending' = [wpending EXCEPT ![i].phase = "closed",
                                          ![i].error = (@ \/ w # "ok")]
          /\ writeFailures' = IF w = "ok" \/ wpending[i].error
                              THEN writeFailures ELSE writeFailures + 1
    /\ UNCHANGED << tasks, logFile, tmLast, nxVars, mktVars, parVars, svcVars, orchVars >>

\* fs.writeFile has settled: saveLog and the call that awaited it return, or
\* reject.
TMWriteReturn(i) ==
    /\ i \in 1..Len(wpending)
    /\ wpending[i].phase = "closed"
    /\ wpending' = [wpending EXCEPT ![i].phase = "done"]
    /\ tmLast' = Ended(wpending[i].call, wpending[i].found,
                       IF wpending[i].error THEN "fail" ELSE "ok")
    /\ UNCHANGED << tasks, logFile, writeFailures, nxVars, mktVars, parVars, svcVars, orchVars >>

NextTMOverlap ==
    \/ \E task \in TaskInputs : TMAddTaskBegin(task)
    \/ \E id \in UpdateIds, updates \in UpdateInputs : TMUpdateTaskBegin(id, updates)
    \/ TMSaveLogBegin
    \/ \E i \in 1..MaxOverlap : TMWriteOpen(i)
    \/ \E i \in 1..MaxOverlap, covers \in BOOLEAN : TMWriteData(i, covers)
    \/ \E i \in 1..MaxOverlap : TMWriteClose(i)
    \/ \E i \in 1..MaxOverlap : TMWriteReturn(i)

SpecTMOverlap == InitNoResults /\ [][NextTMOverlap]_vars

(***************************************************************************)
(* MultiAgentOrchestrator.processProject.                                  *)
(***************************************************************************)
SessionOf(assignedTo) == IF assignedTo = "developer" THEN "developer" ELSE "tester"

AssignedTo(m, who) == SelectSeq(m, LAMBDA t : t.assignedTo = who)

Ids(m) == [i \in 1..Len(m) |-> m[i].id]

\* Mutant: the tester loop executes a task without looking it up in the ready set.
TestTaskSkipsCheck(m, id) == TRUE

\* executeTestingTasks: readyTasks.find(t => t.id === task.id)
TestTaskIsReady(m, id) == \E i \in 1..Len(getReadyTasks(m)) : getReadyTasks(m)[i].id = id

\* The task the loop in progress is at.
ocur == oqueue[oidx]

LoopOf(id) == IF MapGet(tasks, id).assignedTo = "developer" THEN "dev_loop" ELSE "test_loop"

\* `new Promise(...)` registers the listener of `done` on the session, then
\* `session.send({ prompt })` is called: it hands the prompt over, or will
\* reject.
OSend(s, sendOk, sendingPc) ==
    /\ owait' = [NewWait(s) EXCEPT !.send = IF sendOk THEN "called" ELSE "failing"]
    /\ IF sendOk THEN Send(s) ELSE UNCHANGED inflight
    /\ opc' = sendingPc

Sending == {"getTasks_sending", "exec_sending", "final_sending"}

WaitOf(pc) ==
    CASE pc = "getTasks_sending" -> "getTasks_wait"
      [] pc = "exec_sending" -> "exec_wait"
      [] pc = "final_sending" -> "final_wait"

\* `await session.send({ prompt })` returns and `await done` begins, or it
\* throws and, nothing catching it, processProject rejects with `done` never
\* awaited.
OSendReturn ==
    /\ opc \in Sending
    /\ IF owait.send = "failing"
       THEN /\ opc' = "thrown"
            /\ owait' = NoWait
       ELSE /\ opc' = WaitOf(opc)
            /\ owait' = [owait EXCEPT !.send = "settled"]
    /\ UNCHANGED << nxVars, mktVars, parVars, tmVars, svcVars, oqueue, oidx, oerr >>

\* getTasks: the listener is registered, then the prompt is sent.
OGetTasksSend(sendOk) ==
    /\ opc = "start"
    /\ OSend("supervisor", sendOk, "getTasks_sending")
    /\ UNCHANGED << nxVars, mktVars, parVars, tmVars, lateIdle, oqueue, oidx, oerr >>

\* getTasks: `await done` returns, createSampleTasks begins.
OGetTasksDone ==
    /\ opc = "getTasks_wait"
    /\ owait.state = "resolved"
    /\ owait' = NoWait
    /\ opc' = "create"
    /\ oidx' = 1
    /\ UNCHANGED << nxVars, mktVars, parVars, tmVars, svcVars, oqueue, oerr >>

\* createSampleTasks: one `await this.taskManager.addTask(task)` of the loop.
OCreateSampleTask ==
    /\ opc = "create"
    /\ \E w \in WriteOutcomes :
          /\ tasks' = addTask(tasks, sampleTasks[oidx])
          /\ saveLog(tasks', w)
          /\ tmLast' = Ended("addTask", MapHas(tasks, sampleTasks[oidx].id), w)
          /\ opc' = IF w # "ok" THEN "thrown"
                    ELSE IF oidx = Len(sampleTasks) THEN "dev_begin" ELSE "create"
          /\ oidx' = IF w = "ok" /\ oidx < Len(sampleTasks) THEN oidx + 1 ELSE 0
    /\ UNCHANGED << nxVars, mktVars, parVars, svcVars, wpending, oqueue, owait, oerr >>

\* executeDevelopmentTasks: the ready set is computed once, before the loop.
ODevBegin ==
    /\ opc = "dev_begin"
    /\ oqueue' = Ids(AssignedTo(getReadyTasks(tasks), "developer"))
    /\ oidx' = 1
    /\ opc' = "dev_loop"
    /\ UNCHANGED << nxVars, mktVars, parVars, tmVars, svcVars, owait, oerr >>

\* executeDevelopmentTasks returns; executeTestingTasks takes the tester tasks.
OTestBegin ==
    /\ opc = "dev_loop"
    /\ oidx > Len(oqueue)
    /\ oqueue' = Ids(AssignedTo(getAllTasks(tasks), "tester"))
    /\ oidx' = 1
    /\ opc' = "test_loop"
    /\ UNCHANGED << nxVars, mktVars, parVars, tmVars, svcVars, owait, oerr >>

\* executeTestingTasks: a tester task that is not in the ready set is passed over.
OTestSkip ==
    /\ opc = "test_loop"
    /\ oidx <= Len(oqueue)
    /\ ~TestTaskIsReady(tasks, ocur)
    /\ oidx' = oidx + 1
    /\ UNCHANGED << nxVars, mktVars, parVars, tmVars, svcVars, opc, oqueue, owait, oerr >>

\* executeTask: `await updateTask(task.id, { status: "in-progress", ... })`.
OExecuteTaskBegin ==
    /\ opc \in {"dev_loop", "test_loop"}
    /\ oidx <= Len(oqueue)
    /\ opc = "test_loop" => TestTaskIsReady(tasks, ocur)
    /\ \E w \in WriteOutcomes :
          /\ tasks' = updateTask(tasks, ocur,
                                 [status |-> "in-progress", startTime |-> NewDate])
          /\ saveLog(tasks', w)
          /\ tmLast' = Ended("updateTask", MapHas(tasks, ocur), w)
          /\ opc' = IF w = "ok" THEN "exec_send" ELSE "thrown"
    /\ UNCHANGED << nxVars, mktVars, parVars, svcVars, wpending, oqueue, oidx, owait, oerr >>

\* executeTask: the listener is registered, then the prompt is sent.
OExecuteTaskSend(sendOk) ==
    /\ opc = "exec_send"
    /\ OSend(SessionOf(MapGet(tasks, ocur).assignedTo), sendOk, "exec_sending")
    /\ UNCHANGED << nxVars, mktVars, parVars, tmVars, lateIdle, oqueue, oidx, oerr >>

\* executeTask: `await done` returns, the task is marked completed.
OExecuteTaskDone ==
    /\ opc = "exec_wait"
    /\ owait.state = "resolved"
    /\ \E w \in WriteOutcomes :
          /\ tasks' = updateTask(tasks, ocur,
                                 [status |-> "completed", endTime |-> NewDate,
                                  result |-> owait.value])
          /\ saveLog(tasks', w)
          /\ tmLast' = Ended("updateTask", MapHas(tasks, ocur), w)
          /\ opc' = IF w = "ok" THEN LoopOf(ocur) ELSE "thrown"
          /\ oidx' = IF w = "ok" THEN oidx + 1 ELSE oidx
    /\ owait' = NoWait
    /\ UNCHANGED << nxVars, mktVars, parVars, svcVars, wpending, oqueue, oerr >>

\* finalReview: the listener is registered, then the prompt is sent.
OFinalReviewSend(sendOk) ==
    /\ opc = "test_loop"
    /\ oidx > Len(oqueue)
    /\ OSend("supervisor", sendOk, "final_sending")
    /\ UNCHANGED << nxVars, mktVars, parVars, tmVars, lateIdle, oqueue, oidx, oerr >>

\* finalReview returns, showFinalReport, processProject returns.
OFinalReviewDone ==
    /\ opc = "final_wait"
    /\ owait.state = "resolved"
    /\ owait' = NoWait
    /\ opc' = "done"
    /\ UNCHANGED << nxVars, mktVars, parVars, tmVars, svcVars, oqueue, oidx, oerr >>

(***************************************************************************)
(* Events of the orchestrator's sessions, and what its listeners do.       *)
(***************************************************************************)
OListening(s) == owait.session = s /\ owait.state = "pending"

\* The listener of executeTask keeps the content of the last message.
OOnMessage(w, c) ==
    IF opc \in {"exec_sending", "exec_wait"} THEN [w EXCEPT !.result = c] ELSE w

\* Every listener resolves its promise on session.idle.
OOnIdle(w) == [w EXCEPT !.state = "resolved", !.value = w.result]

OMessage(s, c) ==
    /\ inflight[s] > 0
    /\ OListening(s)
    /\ owait' = OOnMessage(owait, c)
    /\ UNCHANGED << nxVars, mktVars, parVars, tmVars, svcVars, opc, oqueue, oidx, oerr >>

OCall ==
    IF opc \in {"exec_sending", "exec_wait"} THEN ocur
    ELSE IF opc \in Sending THEN WaitOf(opc) ELSE opc

\* No listener of the orchestrator handles the `error` event.
OError(s) ==
    /\ inflight[s] > 0
    /\ EndPrompt(s)
    /\ lateIdle' = [lateIdle EXCEPT ![s] = TRUE]
    /\ oerr' = IF OListening(s) THEN oerr \cup {OCall} ELSE oerr
    /\ UNCHANGED << nxVars, mktVars, parVars, tmVars, opc, oqueue, oidx, owait >>

OIdle(s) ==
    /\ inflight[s] > 0
    /\ EndPrompt(s)
    /\ owait' = IF OListening(s) THEN OOnIdle(owait) ELSE owait
    /\ UNCHANGED << nxVars, mktVars, parVars, tmVars, lateIdle, opc, oqueue, oidx, oerr >>

\* session.idle emitted after an error event.
OLateIdle(s) ==
    /\ lateIdle[s]
    /\ lateIdle' = [lateIdle EXCEPT ![s] = FALSE]
    /\ owait' = IF OListening(s) THEN OOnIdle(owait) ELSE owait
    /\ UNCHANGED << nxVars, mktVars, parVars, tmVars, inflight, opc, oqueue, oidx, oerr >>

\* The steps the program takes by itself, without an event of a session.
OrchStep ==
    \/ \E sendOk \in BOOLEAN : OGetTasksSend(sendOk)
    \/ OGetTasksDone
    \/ OCreateSampleTask
    \/ ODevBegin
    \/ OTestBegin
    \/ OTestSkip
    \/ OExecuteTaskBegin
    \/ \E sendOk \in BOOLEAN : OExecuteTaskSend(sendOk)
    \/ OExecuteTaskDone
    \/ \E sendOk \in BOOLEAN : OFinalReviewSend(sendOk)
    \/ OFinalReviewDone

OrchEvent ==
    \/ \E s \in OrchSessions, c \in Contents : OMessage(s, c)
    \/ \E s \in OrchSessions : OError(s)
    \/ \E s \in OrchSessions : OIdle(s)
    \/ \E s \in OrchSessions : OLateIdle(s)
    \/ OSendReturn

NextOrch == OrchStep \/ OrchEvent

SpecOrch == InitNoResults /\ [][NextOrch]_vars

\* The event loop runs every continuation that is ready; the sessions owe nothing.
FairOrch == SpecOrch /\ WF_vars(OrchStep)

(***************************************************************************)
(* ParallelDevelopmentManager.                                             *)
(***************************************************************************)
TimeoutMessage == "task execution timed out"     \* the text of the timeout Error
DefaultErrorMessage == "execution error"         \* the text used for an error event
                                                 \* that carries no message
ErrorMessages == {"boom", Undefined}

DevelopmentTask(id, type) ==
    [id |-> id, type |-> type, status |-> "pending", output |-> Undefined,
     error |-> Undefined]

PTaskInputs ==
    { DevelopmentTask("FE-001", "frontend"), DevelopmentTask("FE-002", "frontend"),
      DevelopmentTask("BE-001", "backend") }

\* this.tasks, each key with the fields of the task object it holds.
ptasks == [i \in 1..Len(pmap) |-> pheap[pmap[i]]]

\* What ended the wait of the executeTask call of the Map's task of an id.
pcause == [id \in PIds |-> IF MapHas(pmap, id) THEN pwhy[MapGet(pmap, id)] ELSE "none"]

\* The calls of executeTasksInParallel made so far, and the objects there are.
Calls == 1..Len(pcall)

Refs == DOMAIN pheap

\* The first call of executeTasksInParallel, and its lanes.
ppc == IF pcall = <<>> THEN "idle" ELSE pcall[1].pc

plane == IF pcall = <<>> THEN [l \in Types |-> LaneOff] ELSE pcall[1].lane

\* tasksByType[type]: the tasks of one type, in the Map's order.
tasksByType(pt, type) == Ids(SelectSeq(pt, LAMBDA t : t.type = type))

SetRunning(task) == [task EXCEPT !.status = "running"]

MarkCompleted(task, result) == [task EXCEPT !.status = "completed", !.output = result]

\* Mutant: the catch block records the error and leaves the status as it is.
MarkFailedKeepsStatus(task, err) == [task EXCEPT !.error = err]

MarkFailed(task, err) == [task EXCEPT !.status = "failed", !.error = err]

\* new Promise(...): output = "", hasError = false, the timer is set, the listener registered.
BeginWait(ln) ==
    [ln EXCEPT !.state = "wait", !.output = <<>>, !.hasError = FALSE, !.timer = TRUE,
               !.result = <<>>, !.reason = ""]

POnMessage(ln, c) == [ln EXCEPT !.output = Append(@, c)]

POnError(ln, message) ==
    [ln EXCEPT !.hasError = TRUE, !.timer = FALSE, !.state = "rejected",
               !.reason = IF message = Undefined THEN DefaultErrorMessage ELSE message]

POnIdle(ln) ==
    IF ~ln.hasError
    THEN [ln EXCEPT !.timer = FALSE, !.state = "resolved", !.result = ln.output]
    ELSE [ln EXCEPT !.timer = FALSE]

POnTimeout(ln) ==
    [ln EXCEPT !.timer = FALSE, !.state = "rejected", !.reason = TimeoutMessage]

\* Mutant: the lanes are awaited one after the other, only the first starts with the call.
StartsFirstLaneOnly(type) == type = "frontend"

\* Mutant: the frontend lane waits for the other lanes to end.
StartsAllButFrontend(type) == type # "frontend"

\* executeTasksInParallel maps every type to a call of executeTasksInSession.
StartsWithCall(type) == TRUE

\* Mutant: the catch block rethrows, the loop of the lane ends.
AfterFailureAbort(ln) == FALSE

\* executeTask catches the rejection and returns: the loop of the lane goes on.
AfterFailureContinue(ln) == TRUE

\* The for loop of executeTasksInSession moves to its next task, which starts
\* at once (status running, new promise), or ends (no promise is left).
NextInLane(heap, ln) ==
    IF ln.idx < Len(ln.queue)
    THEN << [heap EXCEPT ![ln.queue[ln.idx + 1]] = SetRunning(@)],
            BeginWait([ln EXCEPT !.idx = @ + 1]) >>
    ELSE << heap, [LaneOff EXCEPT !.queue = ln.queue, !.idx = ln.idx + 1,
                                  !.state = "finished"] >>

\* The task object the lane of a call is at.
pcur(c, l) == pcall[c].lane[l].queue[pcall[c].lane[l].idx]

\* The task objects the lanes of the calls hold.
Queued == UNION {Range(pcall[c].lane[l].queue) : c \in Calls, l \in Types}

\* The object a caller passes to addTask under an id: a new one, the one that
\* is in the Map, or the one a lane holds that is no longer in the Map.
TaskObjects == {"new", "same", "held"}

\* addTask: this.tasks.set(task.id, task), at any time, a call of
\* executeTasksInParallel in progress included. The lanes hold the task objects
\* that were in the Map when their call grouped them: after addTask of another
\* object under the id, what a lane writes to the object it holds the Map does
\* not show, until addTask is called with the lane's object again. An object
\* that neither the Map nor a lane holds any more is dropped.
PAddTask(task, object) ==
    /\ CASE object = "new" ->
              /\ MapHas(pmap, task.id) \/ Len(pmap) < MaxPTasks
              /\ LET kept == Queued \cup {r \in Range(pmap) : r.id # task.id}
                     free == {n \in 1..(Len(pcall) + 1) : [id |-> task.id, n |-> n] \notin kept}
                     new == [id |-> task.id, n |-> CHOOSE n \in free : \A k \in free : n <= k]
                 IN /\ pmap' = MapSet(pmap, new)
                    /\ pheap' = [x \in kept \cup {new} |-> IF x = new THEN task ELSE pheap[x]]
                    /\ pwhy' = [x \in kept \cup {new} |-> IF x = new THEN "none" ELSE pwhy[x]]
         [] object = "same" ->
              /\ MapHas(pmap, task.id)
              /\ UNCHANGED << pmap, pheap, pwhy >>
         [] object = "held" ->
              \E r \in Queued \ Range(pmap) :
                 /\ r.id = task.id
                 /\ pmap' = MapSet(pmap, r)
                 /\ pheap' = [x \in Queued \cup Range(pmap') |-> pheap[x]]
                 /\ pwhy' = [x \in Queued \cup Range(pmap') |-> pwhy[x]]
    /\ UNCHANGED << nxVars, mktVars, tmVars, svcVars, orchVars, pcall, punprompted >>

\* executeTasksInParallel up to `await Promise.all`: every lane with tasks has
\* started its first task.
executeTasksInParallel ==
    LET queue(l) == SelectSeq(pmap, LAMBDA r : pheap[r].type = l)
        started == {l \in Types : queue(l) # <<>> /\ StartsWithCall(l)}
    IN
    /\ pcall' = Append(pcall,
                    [pc |-> "running",
                     lane |-> [l \in Types |->
                                 IF queue(l) = <<>> THEN [LaneOff EXCEPT !.state = "finished"]
                                 ELSE IF l \in started
                                      THEN BeginWait([LaneOff EXCEPT !.queue = queue(l),
                                                                     !.idx = 1])
                                      ELSE [LaneOff EXCEPT !.queue = queue(l),
                                                           !.state = "unstarted"]]])
    /\ pheap' = [r \in Refs |-> IF \E l \in started : queue(l)[1] = r
                                THEN SetRunning(pheap[r])
                                ELSE pheap[r]]
    /\ UNCHANGED << nxVars, mktVars, tmVars, svcVars, orchVars, pmap, pwhy, punprompted >>

\* The first call of executeTasksInParallel.
PExecute ==
    /\ pcall = <<>>
    /\ executeTasksInParallel

\* A later call of executeTasksInParallel, made at any time, whether the calls
\* before it have returned or are still running: it groups every task of the
\* map again, whatever its status.
PExecuteAgain ==
    /\ Len(pcall) \in 1..(MaxCalls - 1)
    /\ executeTasksInParallel

Unprompted(l) == punprompted' = (punprompted \/ inflight[l] = 0)

EndPromptIfAny(l) == inflight' = [inflight EXCEPT ![l] = IF @ > 0 THEN @ - 1 ELSE 0]

\* The message contents drawn for the lanes' sessions: the manager only
\* appends them, so one content is enough to tell the outputs apart by length.
PContents == {"a"}

\* The calls whose listener on the session of a type has a promise to settle.
Listeners(l) == {c \in Calls : pcall[c].lane[l].state = "wait"}

\* session.on handlers run one after the other on every event of the session:
\* each call's listener acts on its own promise.
Deliver(l, On(_), cause) ==
    /\ Listeners(l) # {}
    /\ pcall' = [c \in Calls |->
                    IF c \in Listeners(l) THEN [pcall[c] EXCEPT !.lane[l] = On(@)]
                    ELSE pcall[c]]
    /\ pwhy' = [r \in Refs |->
                   IF cause # "none" /\ \E c \in Listeners(l) : pcur(c, l) = r THEN cause
                   ELSE pwhy[r]]

PMessage(l, c) ==
    /\ \A k \in Listeners(l) : Len(pcall[k].lane[l].output) < MaxMsgs
    /\ Deliver(l, LAMBDA ln : POnMessage(ln, c), "none")
    /\ Unprompted(l)
    /\ UNCHANGED << nxVars, mktVars, tmVars, svcVars, orchVars, pmap, pheap >>

PError(l, message) ==
    /\ Deliver(l, LAMBDA ln : POnError(ln, message), "error")
    /\ Unprompted(l)
    /\ EndPromptIfAny(l)
    /\ UNCHANGED << nxVars, mktVars, tmVars, lateIdle, orchVars, pmap, pheap >>

PIdle(l) ==
    /\ Deliver(l, POnIdle, "idle")
    /\ Unprompted(l)
    /\ EndPromptIfAny(l)
    /\ UNCHANGED << nxVars, mktVars, tmVars, lateIdle, orchVars, pmap, pheap >>

\* The 5 minute timer of a call in progress fires.
PTimeout(l) ==
    \E c \in Listeners(l) :
       /\ pcall[c].lane[l].timer
       /\ pcall' = [pcall EXCEPT ![c].lane[l] = POnTimeout(@)]
       /\ pwhy' = [pwhy EXCEPT ![pcur(c, l)] = "timeout"]
       /\ UNCHANGED << nxVars, mktVars, tmVars, svcVars, orchVars, pmap, pheap, punprompted >>

\* The promise rejected: the catch block marks the task failed, executeTask returns.
PCatch(l) ==
    \E c \in Calls :
       /\ pcall[c].lane[l].state = "rejected"
       /\ LET ln == pcall[c].lane[l]
              heap == [pheap EXCEPT ![pcur(c, l)] = MarkFailed(@, ln.reason)]
              nx == NextInLane(heap, ln)
          IN IF AfterFailureContinue(ln)
             THEN /\ pheap' = nx[1]
                  /\ pcall' = [pcall EXCEPT ![c].lane[l] = nx[2]]
             ELSE /\ pheap' = heap
                  /\ pcall' = [pcall EXCEPT ![c].lane[l].state = "aborted"]
       /\ UNCHANGED << nxVars, mktVars, tmVars, svcVars, orchVars, pmap, pwhy, punprompted >>

\* The promise resolved: only now the prompt is sent. A send that rejects
\* throws inside the try block, to the catch block.
PSend(l, sendOk) ==
    \E c \in Calls :
       /\ pcall[c].lane[l].state = "resolved"
       /\ IF sendOk
          THEN /\ Send(l)
               /\ pcall' = [pcall EXCEPT ![c].lane[l].state = "sending"]
               /\ UNCHANGED pwhy
          ELSE /\ UNCHANGED inflight
               /\ pcall' = [pcall EXCEPT ![c].lane[l].state = "rejected",
                                         ![c].lane[l].reason = "send failed"]
               /\ pwhy' = [pwhy EXCEPT ![pcur(c, l)] = "send"]
       /\ UNCHANGED << nxVars, mktVars, tmVars, lateIdle, orchVars, pmap, pheap, punprompted >>

\* `await session.send` returns: the task is marked completed, executeTask returns.
PSendDone(l) ==
    \E c \in Calls :
       /\ pcall[c].lane[l].state = "sending"
       /\ LET ln == pcall[c].lane[l]
              nx == NextInLane([pheap EXCEPT ![pcur(c, l)] = MarkCompleted(@, ln.result)], ln)
          IN /\ pheap' = nx[1]
             /\ pcall' = [pcall EXCEPT ![c].lane[l] = nx[2]]
       /\ UNCHANGED << nxVars, mktVars, tmVars, svcVars, orchVars, pmap, pwhy, punprompted >>

\* Promise.all settles: with every lane's promise resolved, or with one rejected.
PReturn ==
    \E c \in Calls :
       /\ pcall[c].pc = "running"
       /\ \/ \A l \in Types : pcall[c].lane[l].state = "finished"
          \/ \E l \in Types : pcall[c].lane[l].state = "aborted"
       /\ pcall' = [pcall EXCEPT ![c].pc =
                       IF \E l \in Types : pcall[c].lane[l].state = "aborted"
                       THEN "rejected" ELSE "returned"]
       /\ UNCHANGED << nxVars, mktVars, tmVars, svcVars, orchVars, pmap, pheap, pwhy, punprompted >>

PLaneStep(l) == PCatch(l) \/ (\E sendOk \in BOOLEAN : PSend(l, sendOk)) \/ PSendDone(l)

\* The call of executeTasksInParallel and what happens while it runs.
ParRun ==
    \/ PExecute
    \/ \E l \in Types, c \in PContents : PMessage(l, c)
    \/ \E l \in Types, message \in ErrorMessages : PError(l, message)
    \/ \E l \in Types : PIdle(l)
    \/ \E l \in Types : PTimeout(l)
    \/ \E l \in Types : PCatch(l)
    \/ \E l \in Types, sendOk \in BOOLEAN : PSend(l, sendOk)
    \/ \E l \in Types : PSendDone(l)
    \/ PReturn

\* The manager with any caller: addTask at any time.
NextPar ==
    \/ \E task \in PTaskInputs, object \in TaskObjects : PAddTask(task, object)
    \/ ParRun

SpecPar == InitNoResults /\ [][NextPar]_vars

\* The manager with a caller that awaits every call, as main does: addTask
\* only while no call of executeTasksInParallel is running.
NextParAwaited ==
    \/ \E task \in PTaskInputs, object \in TaskObjects :
           ppc # "running" /\ PAddTask(task, object)
    \/ ParRun

SpecParAwaited == InitNoResults /\ [][NextParAwaited]_vars

\* The manager with a caller that calls executeTasksInParallel again, at any
\* time, and adds tasks ahead of a call, while no call is running (addTask
\* during a call is in NextPar).
NextParCalls ==
    \/ \E task \in PTaskInputs, object \in TaskObjects :
           /\ Len(pcall) < MaxCalls /\ \A c \in Calls : pcall[c].pc # "running"
           /\ PAddTask(task, object)
    \/ ParRun
    \/ PExecuteAgain

SpecParCalls == InitNoResults /\ [][NextParCalls]_vars

\* Continuations that are ready run, timers fire; the sessions owe nothing.
FairPar ==
    /\ SpecPar
    /\ \A l \in Types : WF_vars(PLaneStep(l)) /\ WF_vars(PTimeout(l))
    /\ WF_vars(PReturn)

FairParAwaited ==
    /\ SpecParAwaited
    /\ \A l \in Types : WF_vars(PLaneStep(l)) /\ WF_vars(PTimeout(l))
    /\ WF_vars(PReturn)

\* As FairParAwaited, but `await session.send(...)`, which has no timer, is
\* not owed its return: the program calls send, the session may never settle it.
FairParSendUntimed ==
    /\ SpecParAwaited
    /\ \A l \in Types : /\ WF_vars(PCatch(l))
                        /\ WF_vars(\E sendOk \in BOOLEAN : PSend(l, sendOk))
                        /\ WF_vars(PTimeout(l))
    /\ WF_vars(PReturn)

(***************************************************************************)
(* NextJsTestAutomation.                                                   *)
(***************************************************************************)
OperationTimeoutMessage == "operation timed out"   \* the text of sendAndWait's timeout Error

FixIterationBound == 1      \* fixFailedTests is called under one `if`, not in a loop

CountOf(results, st) == Cardinality({i \in 1..Len(results) : results[i].status = st})

parseTestResults(jest) ==
    LET testResults == [i \in 1..Len(jest) |-> [testName |-> i, status |-> jest[i]]]
    IN [totalTests |-> Len(testResults),
        passed |-> CountOf(testResults, "passed"),
        failed |-> CountOf(testResults, "failed"),
        skipped |-> CountOf(testResults, "skipped"),
        results |-> testResults]

\* Mutant: every result of the report gets a fix task.
allResults(report) == report.results

\* fixFailedTests: report.results.filter(t => t.status === "failed")
failedTests(report) == SelectSeq(report.results, LAMBDA t : t.status = "failed")

\* Mutant: fixFailedTests returns after the first fix task.
FixLoopDoneAfterFirst(idx, n) == idx > 1

\* fixFailedTests: `for (const test of failedTests)` has run out.
FixLoopDone(idx, n) == idx > n

\* Mutant: fixFailedTests and the re-run follow the first run unconditionally.
StepAfterRunFixesAlways(first, failed) == IF first THEN "fix" ELSE "report"

\* Mutant: the fix / re-run steps are repeated as long as a run reports failures.
StepAfterRunLoops(first, failed) == IF failed > 0 THEN "fix" ELSE "report"

\* runFullTestCycle: `if (report.failed > 0)` after the first run; the report
\* step after the re-run.
StepAfterRun(first, failed) == IF first /\ failed > 0 THEN "fix" ELSE "report"

\* Mutant: the cycle reports success whatever the last run found.
SuccessAlways(report) == TRUE

\* runFullTestCycle: `success: report.failed === 0`
SuccessOf(report) == report.failed = 0

\* Mutant: session.send is called and no listener is registered on the session.
sendAndWaitNoListener(w, s, sendOk) ==
    [NoPromise EXCEPT !.state = "pending", !.timer = TRUE,
                      !.send = IF sendOk THEN "called" ELSE "failing", !.stale = w.stale]

\* sendAndWait: the executor of new Promise(...) sets the timer, registers the
\* listener with session.on and then calls session.send, which hands the
\* prompt over or will reject; the promise of session.send settles later.
sendAndWait(w, s, sendOk) ==
    [NoPromise EXCEPT !.session = s, !.state = "pending", !.timer = TRUE,
                      !.send = IF sendOk THEN "called" ELSE "failing", !.stale = w.stale]

\* Mutant: resolve acts on a promise that has already settled.
ResolveSettled(w, v) == [w EXCEPT !.state = "resolved", !.value = v]

Resolve(w, v) == IF w.state = "pending" THEN [w EXCEPT !.state = "resolved", !.value = v] ELSE w

Reject(w, why) == IF w.state = "pending" THEN [w EXCEPT !.state = "rejected", !.reason = why] ELSE w

NOnMessage(w, c) == [w EXCEPT !.result = c]

NOnError(w, message) ==
    Reject([w EXCEPT !.hasError = TRUE, !.timer = FALSE],
           IF message = Undefined THEN DefaultErrorMessage ELSE message)

NOnIdle(w) ==
    IF ~w.hasError
    THEN Resolve([w EXCEPT !.timer = FALSE], w.result)
    ELSE [w EXCEPT !.timer = FALSE]

NOnTimeout(w) == Reject([w EXCEPT !.timer = FALSE], OperationTimeoutMessage)

\* A call that has timed out has left its prompt in progress on the session.
Orphan(s) == \E c \in NCalls : ncall[c].orphan = s

\* The calls whose code runs: none once the process has exited.
NRunning == IF nmain.pc = "exited" THEN {} ELSE NCalls

\* runFullTestCycle(componentPaths) starts: the locals of the call are new.
runFullTestCycle(k) ==
    /\ ncall' = Append(ncall, [NoCycle EXCEPT !.pc = "generate", !.components = k, !.comp = 1])
    /\ UNCHANGED << tmVars, svcVars, orchVars, parVars, mktVars, nmain, nfile >>

\* runFullTestCycle(componentPaths) is called by main.
NRunFullTestCycle(k) ==
    /\ nmain.pc = "initialized"
    /\ ncall = <<>>
    /\ runFullTestCycle(k)

\* Step 1: generateTests for the next component reads the component's source
\* (fs.readFile throws when it cannot) and then calls sendAndWait.
NGenerateTests(readOk, sendOk) ==
    \E c \in NRunning :
        /\ ncall[c].pc = "generate"
        /\ ncall[c].comp <= ncall[c].components
        /\ IF readOk
           THEN /\ ncall' = [ncall EXCEPT ![c].wait = sendAndWait(@, "testGenerator", sendOk),
                                          ![c].behind = Orphan("testGenerator"),
                                          ![c].pc = "generate_wait"]
                /\ IF sendOk THEN Send("testGenerator") ELSE UNCHANGED inflight
           ELSE /\ ncall' = [ncall EXCEPT ![c].pc = "thrown"]
                /\ UNCHANGED inflight
        /\ UNCHANGED << tmVars, lateIdle, orchVars, parVars, mktVars, nmain, nfile >>

\* Steps 2 and 4: runTests runs the test command, which may or may not write
\* test-results.json, and then reads the file, in the try block if the
\* command succeeded and in the catch block if it failed: it returns a report
\* parsed from whatever the file holds, or throws when there is no file.
NRunTests(jest, wrote) ==
    \E c \in NRunning :
        LET k == ncall[c]
            file == IF wrote THEN [exists |-> TRUE, results |-> jest, fresh |-> TRUE]
                    ELSE [nfile EXCEPT !.fresh = FALSE]
            report == parseTestResults(file.results)
        IN /\ \/ k.pc = "generate" /\ k.comp > k.components
              \/ k.pc = "rerun"
           /\ k.runs < MaxRuns
           /\ nfile' = file
           /\ ncall' = [ncall EXCEPT ![c] =
                           IF file.exists
                           THEN [k EXCEPT !.runs = @ + 1, !.report = report,
                                          !.pc = StepAfterRun(k.pc = "generate", report.failed)]
                           ELSE [k EXCEPT !.runs = @ + 1, !.pc = "thrown"]]
           /\ UNCHANGED << tmVars, svcVars, orchVars, parVars, mktVars, nmain >>

\* Step 3: fixFailedTests(report) is called.
NFixFailedTests ==
    \E c \in NRunning :
        /\ ncall[c].pc = "fix"
        /\ ncall' = [ncall EXCEPT ![c].fixIter = @ + 1,
                                  ![c].fix = [i \in 1..Len(failedTests(ncall[c].report)) |-> "unsent"],
                                  ![c].fixIdx = 1,
                                  ![c].pc = "fix_loop"]
        /\ UNCHANGED << tmVars, svcVars, orchVars, parVars, mktVars, nmain, nfile >>

\* fixSingleTest for the next failed test reads the test file (fs.readFile
\* throws when it cannot) and then calls sendAndWait.
NFixSingleTest(readOk, sendOk) ==
    \E c \in NRunning :
        LET k == ncall[c]
        IN /\ k.pc = "fix_loop"
           /\ ~FixLoopDone(k.fixIdx, Len(failedTests(k.report)))
           /\ IF readOk
              THEN /\ ncall' = [ncall EXCEPT ![c] =
                                  [k EXCEPT !.wait = sendAndWait(@, "testFixer", sendOk),
                                            !.behind = Orphan("testFixer"),
                                            !.fix[k.fixIdx] = "inflight",
                                            !.sent = IF sendOk
                                                     THEN Append(@, failedTests(k.report)[k.fixIdx].testName)
                                                     ELSE @,
                                            !.pc = "fix_wait"]]
                   /\ IF sendOk THEN Send("testFixer") ELSE UNCHANGED inflight
              ELSE /\ ncall' = [ncall EXCEPT ![c].pc = "thrown"]
                   /\ UNCHANGED inflight
           /\ UNCHANGED << tmVars, lateIdle, orchVars, parVars, mktVars, nmain, nfile >>

\* fixFailedTests returns.
NFixDone ==
    \E c \in NRunning :
        /\ ncall[c].pc = "fix_loop"
        /\ FixLoopDone(ncall[c].fixIdx, Len(failedTests(ncall[c].report)))
        /\ ncall' = [ncall EXCEPT ![c].pc = "rerun"]
        /\ UNCHANGED << tmVars, svcVars, orchVars, parVars, mktVars, nmain, nfile >>

\* Step 5: generateTestReport up to `await this.sendAndWait(...)`.
NGenerateTestReport(sendOk) ==
    \E c \in NRunning :
        /\ ncall[c].pc = "report"
        /\ ncall' = [ncall EXCEPT ![c].wait = sendAndWait(@, "testRunner", sendOk),
                                  ![c].behind = Orphan("testRunner"),
                                  ![c].pc = "report_wait"]
        /\ IF sendOk THEN Send("testRunner") ELSE UNCHANGED inflight
        /\ UNCHANGED << tmVars, lateIdle, orchVars, parVars, mktVars, nmain, nfile >>

\* The listeners of earlier calls stay on the session: an error event or a
\* session.idle makes each of them clear its own timer.
ClearStale(w, s) == [w EXCEPT !.stale[s] = 0]

\* `await this.sendAndWait(...)` returns or throws; a throw leaves
\* runFullTestCycle. A timer that nothing cleared (the send was rejected)
\* stays set and is counted with the earlier calls' timers of its session.
\* After the report step's wait comes the write of test-report.md.
NAwaited ==
    \E c \in NRunning :
        LET k == ncall[c]
            w == k.wait
        IN /\ k.pc \in {"generate_wait", "fix_wait", "report_wait"}
           /\ w.state \in {"resolved", "rejected"}
           /\ ncall' = [ncall EXCEPT ![c] =
                 [k EXCEPT
                    !.wait = [NoPromise EXCEPT !.stale =
                                 IF w.timer /\ w.session \in TestSessions
                                 THEN [w.stale EXCEPT ![w.session] = @ + 1]
                                 ELSE w.stale],
                    !.pc = IF w.state = "rejected" THEN "thrown"
                           ELSE IF k.pc = "generate_wait" THEN "generate"
                           ELSE IF k.pc = "fix_wait" THEN "fix_loop"
                           ELSE "report_write",
                    !.comp = IF k.pc = "generate_wait" /\ w.state = "resolved" THEN @ + 1 ELSE @,
                    !.fix = IF k.pc = "fix_wait" THEN [@ EXCEPT ![k.fixIdx] = w.state] ELSE @,
                    !.fixIdx = IF k.pc = "fix_wait" /\ w.state = "resolved" THEN @ + 1 ELSE @,
                    !.success = FALSE]]
           /\ UNCHANGED << tmVars, svcVars, orchVars, parVars, mktVars, nmain, nfile >>

\* generateTestReport: `await fs.writeFile(reportPath, reportContent)` ends.
\* Written, generateTestReport returns and runFullTestCycle returns its
\* result; otherwise the error leaves runFullTestCycle.
NSaveReport(wrote) ==
    \E c \in NRunning :
        /\ ncall[c].pc = "report_write"
        /\ ncall' = [ncall EXCEPT ![c].pc = IF wrote THEN "returned" ELSE "thrown",
                                  ![c].success = (wrote /\ SuccessOf(ncall[c].report)),
                                  ![c].stats = IF wrote THEN ncall[c].report ELSE @]
        /\ UNCHANGED << tmVars, svcVars, orchVars, parVars, mktVars, nmain, nfile >>

\* The sendAndWait calls whose listener is on the session.
NListener(s) == {c \in NCalls : ncall[c].wait.session = s}

\* The terminal event of a session ends its oldest prompt in progress: the
\* one a call that timed out has left, if there is one.
EndOrphan(calls, s) ==
    [c \in DOMAIN calls |->
        IF calls[c].orphan = s /\ \A d \in 1..(c - 1) : calls[d].orphan # s
        THEN [calls[c] EXCEPT !.orphan = "none"]
        ELSE calls[c]]

NMessage(s, c) ==
    /\ inflight[s] > 0
    /\ NListener(s) # {}
    /\ ncall' = [d \in NCalls |->
                    IF d \in NListener(s)
                    THEN [ncall[d] EXCEPT !.wait = NOnMessage(@, c)] ELSE ncall[d]]
    /\ UNCHANGED << tmVars, svcVars, orchVars, parVars, mktVars, nmain, nfile >>

NError(s, message) ==
    /\ inflight[s] > 0
    /\ EndPrompt(s)
    /\ lateIdle' = [lateIdle EXCEPT ![s] = TRUE]
    /\ ncall' = EndOrphan([d \in NCalls |->
                    [ncall[d] EXCEPT !.wait =
                        ClearStale(IF d \in NListener(s) THEN NOnError(@, message) ELSE @, s)]], s)
    /\ UNCHANGED << tmVars, orchVars, parVars, mktVars, nmain, nfile >>

NIdle(s) ==
    /\ inflight[s] > 0
    /\ EndPrompt(s)
    /\ ncall' = EndOrphan([d \in NCalls |->
                    [ncall[d] EXCEPT !.wait =
                        ClearStale(IF d \in NListener(s) THEN NOnIdle(@) ELSE @, s)]], s)
    /\ UNCHANGED << tmVars, lateIdle, orchVars, parVars, mktVars, nmain, nfile >>

\* session.idle emitted after an error event.
NLateIdle(s) ==
    /\ lateIdle[s]
    /\ lateIdle' = [lateIdle EXCEPT ![s] = FALSE]
    /\ ncall' = [d \in NCalls |->
                    [ncall[d] EXCEPT !.wait =
                        ClearStale(IF d \in NListener(s) THEN NOnIdle(@) ELSE @, s)]]
    /\ UNCHANGED << tmVars, inflight, orchVars, parVars, mktVars, nmain, nfile >>

\* The 10 minute timer of a sendAndWait call in progress fires. A call that
\* is still pending with its prompt handed over leaves the prompt in progress
\* on the session.
NTimeout ==
    \E c \in NCalls :
        LET w == ncall[c].wait
        IN /\ w.timer
           /\ ncall' = [ncall EXCEPT ![c].wait = NOnTimeout(w),
                                     ![c].orphan = IF w.state = "pending" /\ w.send # "failing"
                                                   THEN w.session ELSE @]
           /\ UNCHANGED << tmVars, svcVars, orchVars, parVars, mktVars, nmain, nfile >>

\* The timer of an earlier call of sendAndWait, still set when the call was
\* left, fires: its promise has settled, nothing changes but the timer.
NStaleTimeout(s) ==
    \E c \in NRunning :
        /\ ncall[c].wait.stale[s] > 0
        /\ ncall' = [ncall EXCEPT ![c].wait.stale[s] = @ - 1]
        /\ UNCHANGED << tmVars, svcVars, orchVars, parVars, mktVars, nmain, nfile >>

\* session.send rejected: .catch(reject)
NSendRejected ==
    \E c \in NCalls :
        /\ ncall[c].wait.send = "failing"
        /\ ncall' = [ncall EXCEPT ![c].wait = Reject([@ EXCEPT !.send = "settled"], "send failed")]
        /\ UNCHANGED << tmVars, svcVars, orchVars, parVars, mktVars, nmain, nfile >>

\* session.send fulfilled: nothing of sendAndWait follows it.
NSendReturned ==
    \E c \in NCalls :
        /\ ncall[c].wait.send = "called"
        /\ ncall' = [ncall EXCEPT ![c].wait.send = "settled"]
        /\ UNCHANGED << tmVars, svcVars, orchVars, parVars, mktVars, nmain, nfile >>

\* The sessions in the order createTestAgents creates and cleanup destroys them.
SessionOrder == << "testGenerator", "testRunner", "testFixer" >>

FirstSessions(k) == {SessionOrder[i] : i \in 1..k}

\* Mutant: the process ends with code 0 on every path.
ExitCodeZero(viaExit) == 0

\* `process.exit(1)` ends the process with code 1; a process that ends because
\* main has returned (or has rejected into `main().catch(console.error)`) ends
\* with code 0.
ExitCode(viaExit) == IF viaExit THEN 1 ELSE 0

\* process.exit(1): the process ends at once, the finally block does not run.
ProcessExit(m) == [m EXCEPT !.pc = "exited", !.exitCode = ExitCode(TRUE)]

\* `await testAutomation.initialize()`: client.start(), then three
\* createSession calls; k of the sessions exist when it returns (k = 3) or
\* throws (started, k < 3), and a throw goes to the catch block of main.
NInitialize(started, k) ==
    /\ nmain.pc = "start"
    /\ started \/ k = 0
    /\ LET m == [nmain EXCEPT !.client = IF started THEN "started" ELSE "new",
                              !.created = FirstSessions(k)]
       IN nmain' = IF started /\ k = Len(SessionOrder)
                   THEN [m EXCEPT !.pc = "initialized"]
                   ELSE ProcessExit(m)
    /\ UNCHANGED << tmVars, svcVars, orchVars, parVars, mktVars, ncall, nfile >>

\* `await runFullTestCycle(...)` has returned or thrown: with success the try
\* block ends and the finally block runs; otherwise process.exit(1).
NMainAfterCycle ==
    /\ nmain.pc = "initialized"
    /\ npc \in {"returned", "thrown"}
    /\ nmain' = IF npc = "returned" /\ nsuccess
                THEN [nmain EXCEPT !.pc = "finally"]
                ELSE ProcessExit(nmain)
    /\ UNCHANGED << tmVars, svcVars, orchVars, parVars, mktVars, ncall, nfile >>

\* finally: `await testAutomation.cleanup()` destroys the three sessions and
\* stops the client; j of its four awaits succeed, the next one (if any)
\* throws. main ends, and with it the process.
NCleanup(j) ==
    /\ nmain.pc = "finally"
    /\ nmain' = [nmain EXCEPT !.pc = "exited",
                              !.destroyed = FirstSessions(IF j > Len(SessionOrder)
                                                          THEN Len(SessionOrder) ELSE j),
                              !.client = IF j > Len(SessionOrder) THEN "stopped" ELSE @,
                              !.exitCode = ExitCode(FALSE)]
    /\ UNCHANGED << tmVars, svcVars, orchVars, parVars, mktVars, ncall, nfile >>

NMainStep ==
    \/ \E started \in BOOLEAN, k \in 0..Len(SessionOrder) : NInitialize(started, k)
    \/ NMainAfterCycle
    \/ \E j \in 0..(Len(SessionOrder) + 1) : NCleanup(j)

NxStep ==
    \/ \E readOk, sendOk \in BOOLEAN : NGenerateTests(readOk, sendOk)
    \/ \E jest \in JestResults, wrote \in BOOLEAN : NRunTests(jest, wrote)
    \/ NFixFailedTests
    \/ \E readOk, sendOk \in BOOLEAN : NFixSingleTest(readOk, sendOk)
    \/ NFixDone
    \/ \E sendOk \in BOOLEAN : NGenerateTestReport(sendOk)
    \/ NAwaited
    \/ \E wrote \in BOOLEAN : NSaveReport(wrote)

NxEvent ==
    \/ \E s \in TestSessions, c \in Contents : NMessage(s, c)
    \/ \E s \in TestSessions, message \in ErrorMessages : NError(s, message)
    \/ \E s \in TestSessions : NIdle(s)
    \/ \E s \in TestSessions : NLateIdle(s)
    \/ NTimeout
    \/ \E s \in TestSessions : NStaleTimeout(s)
    \/ NSendRejected
    \/ NSendReturned

NextNx ==
    \/ \E k \in 0..MaxComponents : NRunFullTestCycle(k)
    \/ NxStep
    \/ NMainStep
    \/ NxEvent

SpecNx == Init /\ [][NextNx]_vars

\* generateTests(componentPath, testType) is called on the object by a caller
\* of its own, whatever its earlier calls are doing: up to `await fs.readFile`.
NCallGenerateTests ==
    /\ nmain.pc = "initialized"
    /\ Len(ncall) < MaxCalls
    /\ ncall' = Append(ncall, [NoCycle EXCEPT !.pc = "read"])
    /\ UNCHANGED << tmVars, svcVars, orchVars, parVars, mktVars, nmain, nfile >>

\* generateTests: fs.readFile has ended: it throws, or sendAndWait is called.
NGenerateTestsSend(readOk, sendOk) ==
    \E c \in NRunning :
        /\ ncall[c].pc = "read"
        /\ IF readOk
           THEN /\ ncall' = [ncall EXCEPT ![c].wait = sendAndWait(@, "testGenerator", sendOk),
                                          ![c].behind = Orphan("testGenerator"),
                                          ![c].pc = "wait"]
                /\ IF sendOk THEN Send("testGenerator") ELSE UNCHANGED inflight
           ELSE /\ ncall' = [ncall EXCEPT ![c].pc = "thrown"]
                /\ UNCHANGED inflight
        /\ UNCHANGED << tmVars, lateIdle, orchVars, parVars, mktVars, nmain, nfile >>

\* generateTests: `return await this.sendAndWait(...)` returns or throws.
NGenerateTestsReturn ==
    \E c \in NRunning :
        LET w == ncall[c].wait
        IN /\ ncall[c].pc = "wait"
           /\ w.state \in {"resolved", "rejected"}
           /\ ncall' = [ncall EXCEPT
                  ![c].wait = [NoPromise EXCEPT !.stale =
                                  IF w.timer /\ w.session \in TestSessions
                                  THEN [w.stale EXCEPT ![w.session] = @ + 1]
                                  ELSE w.stale],
                  ![c].pc = IF w.state = "resolved" THEN "returned" ELSE "thrown"]
           /\ UNCHANGED << tmVars, svcVars, orchVars, parVars, mktVars, nmain, nfile >>

\* The object as used by a caller that, the sessions created, calls
\* generateTests again and again without waiting for its earlier calls.
NextNxCalls ==
    \/ \E started \in BOOLEAN, k \in 0..Len(SessionOrder) : NInitialize(started, k)
    \/ NCallGenerateTests
    \/ \E readOk, sendOk \in BOOLEAN : NGenerateTestsSend(readOk, sendOk)
    \/ NGenerateTestsReturn
    \/ NxEvent

SpecNxCalls == Init /\ [][NextNxCalls]_vars

\* Continuations that are ready run, the test command ends, timers fire and a
\* failed send rejects; the sessions owe nothing.
FairNx ==
    /\ SpecNx
    /\ WF_vars(NxStep)
    /\ WF_vars(NTimeout)
    /\ \A s \in TestSessions : WF_vars(NStaleTimeout(s))
    /\ WF_vars(NSendRejected)

(***************************************************************************)
(* The marketing orchestrator: main and runAgent.                          *)
(***************************************************************************)
\* runAgent up to `await session.send({ prompt })`: the executor of `done`
\* registers the listener, then session.send is called, which hands the prompt
\* over or will reject.
runAgent(sendOk) ==
    [NoAgent EXCEPT !.pc = "sending", !.listening = TRUE, !.done = "pending",
                    !.send = IF sendOk THEN "called" ELSE "failing"]

\* main: client.start() and the four createSession calls, a throw of which
\* ends main (main().catch: process.exit(1)); then the array given to
\* Promise.all, the four runAgent calls, each run up to its first await.
MRunAgents(created, sendOk) ==
    /\ mkt.pc = "start"
    /\ IF created
       THEN /\ mkt' = [pc |-> "running", agent |-> [a \in MktSessions |-> runAgent(sendOk[a])]]
            /\ inflight' = [s \in Sessions |->
                               IF s \in MktSessions /\ sendOk[s] THEN inflight[s] + 1
                               ELSE inflight[s]]
       ELSE /\ mkt' = [mkt EXCEPT !.pc = "exited"]
            /\ UNCHANGED inflight
    /\ UNCHANGED << tmVars, lateIdle, orchVars, parVars, nxVars >>

\* `await session.send({ prompt })` of an agent returns and `await done`
\* begins, or it throws and runAgent rejects.
MSendReturn(a) ==
    /\ mkt.pc = "running"
    /\ mkt.agent[a].pc = "sending"
    /\ mkt' = [mkt EXCEPT !.agent[a].pc = IF mkt.agent[a].send = "failing"
                                          THEN "thrown" ELSE "waiting",
                          !.agent[a].send = "settled"]
    /\ UNCHANGED << tmVars, svcVars, orchVars, parVars, nxVars >>

\* `await done` returns: runAgent returns the output.
MAwaited(a) ==
    /\ mkt.pc = "running"
    /\ mkt.agent[a].pc = "waiting"
    /\ mkt.agent[a].done = "resolved"
    /\ mkt' = [mkt EXCEPT !.agent[a].pc = "returned"]
    /\ UNCHANGED << tmVars, svcVars, orchVars, parVars, nxVars >>

\* Promise.all has settled: rejected by the first runAgent that threw
\* (main().catch: process.exit(1)), or fulfilled when the four have returned:
\* main writes the plan (a failed write ends it the same way), destroys the
\* sessions and ends.
MAfterAgents(wrote) ==
    /\ mkt.pc = "running"
    /\ \/ /\ \E a \in MktSessions : mkt.agent[a].pc = "thrown"
          /\ mkt' = [mkt EXCEPT !.pc = "exited"]
       \/ /\ \A a \in MktSessions : mkt.agent[a].pc = "returned"
          /\ mkt' = [mkt EXCEPT !.pc = IF wrote THEN "done" ELSE "exited"]
    /\ UNCHANGED << tmVars, svcVars, orchVars, parVars, nxVars >>

\* What an agent's message may hold.
PlanTexts == {"plan"}

\* The listener of runAgent: `output += content + "\n"` on a message,
\* resolve() on session.idle, nothing on error.
MOnMessage(g, c) == IF g.listening THEN [g EXCEPT !.output = Append(@, c)] ELSE g

MOnIdle(g) == IF g.listening THEN [g EXCEPT !.done = "resolved"] ELSE g

MMessage(a, c) ==
    /\ mkt.pc = "running"
    /\ inflight[a] > 0
    /\ Len(mkt.agent[a].output) < MaxMsgs
    /\ mkt' = [mkt EXCEPT !.agent[a] = MOnMessage(@, c)]
    /\ UNCHANGED << tmVars, svcVars, orchVars, parVars, nxVars >>

MError(a) ==
    /\ mkt.pc = "running"
    /\ inflight[a] > 0
    /\ EndPrompt(a)
    /\ lateIdle' = [lateIdle EXCEPT ![a] = TRUE]
    /\ UNCHANGED << tmVars, orchVars, parVars, nxVars, mkt >>

MIdle(a) ==
    /\ mkt.pc = "running"
    /\ inflight[a] > 0
    /\ EndPrompt(a)
    /\ mkt' = [mkt EXCEPT !.agent[a] = MOnIdle(@)]
    /\ UNCHANGED << tmVars, lateIdle, orchVars, parVars, nxVars >>

\* session.idle emitted after an error event.
MLateIdle(a) ==
    /\ mkt.pc = "running"
    /\ lateIdle[a]
    /\ lateIdle' = [lateIdle EXCEPT ![a] = FALSE]
    /\ mkt' = [mkt EXCEPT !.agent[a] = MOnIdle(@)]
    /\ UNCHANGED << tmVars, inflight, orchVars, parVars, nxVars >>

NextMkt ==
    \/ \E created \in BOOLEAN, sendOk \in [MktSessions -> BOOLEAN] : MRunAgents(created, sendOk)
    \/ \E a \in MktSessions : MSendReturn(a)
    \/ \E a \in MktSessions : MAwaited(a)
    \/ \E wrote \in BOOLEAN : MAfterAgents(wrote)
    \/ \E a \in MktSessions, c \in PlanTexts : MMessage(a, c)
    \/ \E a \in MktSessions : MError(a)
    \/ \E a \in MktSessions : MIdle(a)
    \/ \E a \in MktSessions : MLateIdle(a)

(***************************************************************************)
(* One of the three example programs runs: each is a process of its own.   *)
(***************************************************************************)
NextExamples ==
    \/ opc = "start" /\ mkt.pc = "start" /\ NextNx
    \/ nmain.pc = "start" /\ mkt.pc = "start" /\ nfile = NoFile /\ NextOrch
    \/ nmain.pc = "start" /\ opc = "start" /\ nfile = NoFile /\ NextMkt

SpecExamples == Init /\ [][NextExamples]_vars

(***************************************************************************)
(* Properties of TaskManager and MultiAgentOrchestrator.                   *)
(***************************************************************************)
StatusOf(m, id) == IF \E i \in 1..Len(m) : m[i].id = id
                   THEN (CHOOSE t \in Range(m) : t.id = id).status
                   ELSE "absent"

AllDepsCompleted(m, t) == \A d \in Range(t.dependencies) : StatusOf(m, d) = "completed"

\* C1: in processProject a task goes from `pending` to `in-progress` only in a
\* state in which every id of its dependencies names a task whose status is
\* `completed`, also when the task comes from the ready set that
\* executeDevelopmentTasks computed before it executed earlier tasks.
C1_DispatchOnlyWhenDepsCompleted ==
    [][ \A t \in Range(tasks) :
           (t.status = "pending" /\ StatusOf(tasks', t.id) = "in-progress")
               => AllDepsCompleted(tasks, t) ]_vars

\* T3 (depends on T1) is running, after T2 was taken from the developer ready
\* set computed before T1 ran.
C1_Witness ==
    /\ StatusOf(tasks, "T3") = "in-progress"
    /\ StatusOf(tasks, "T1") = "completed"
    /\ StatusOf(tasks, "T2") = "completed"

ReadyIds(m) ==
    {t.id : t \in {u \in Range(m) : u.status = "pending" /\ AllDepsCompleted(m, u)}}

\* C2: for every task map built by addTask / updateTask, getReadyTasks returns
\* exactly the tasks that are `pending` and whose every dependency names an
\* existing `completed` task, each of them once.
C2_ReadyTasksExact ==
    /\ Range(Ids(getReadyTasks(tasks))) = ReadyIds(tasks)
    /\ Len(getReadyTasks(tasks)) = Cardinality(ReadyIds(tasks))

\* A completed, B and C (both depending on A) pending: exactly B and C are ready.
C2_Witness ==
    /\ Ids(tasks) = <<"A", "B", "C">>
    /\ tasks[1].status = "completed"
    /\ tasks[2].dependencies = <<"A">> /\ tasks[3].dependencies = <<"A">>
    /\ Ids(getReadyTasks(tasks)) = <<"B", "C">>

\* C3 (as claimed): when processProject returns and every prompt was answered
\* with session.idle (no error event), every task is `completed`.
C3_AllCompletedOnReturn ==
    (opc = "done" /\ oerr = {}) => \A t \in Range(tasks) : t.status = "completed"

\* C8 (as claimed): a task whose run the session ended with an `error` event
\* is never `completed`, and is not left `in-progress`: either it is `failed`
\* or the program still has a step to take.
C8_ErrorEndsFailed ==
    \A t \in Range(tasks) :
        t.id \in oerr =>
            \/ t.status = "failed"
            \/ t.status = "in-progress" /\ ENABLED OrchStep

(***************************************************************************)
(* Properties of ParallelDevelopmentManager.                               *)
(***************************************************************************)
Terminal == {"completed", "failed"}

OfType(l) == {t \in Range(ptasks) : t.type = l}

\* The tasks a lane holds that are still the Map's own, by position in the lane.
Held(l) == {k \in 1..Len(plane[l].queue) : plane[l].queue[k] \in Range(pmap)}

StatusAt(l, k) == pheap[plane[l].queue[k]].status

\* C4: during executeTasksInParallel at most one task of any type is
\* `running`, and a task of a lane has left `pending` only if every task
\* queued before it in the same lane is `completed` or `failed` (of the tasks
\* that addTask has not replaced in the Map since the call began).
C4_OneRunningPerLane ==
    /\ \A l \in Types : Cardinality({t \in OfType(l) : t.status = "running"}) <= 1
    /\ \A l \in Types : \A a, b \in Held(l) :
          (a < b /\ StatusAt(l, b) # "pending") => StatusAt(l, a) \in Terminal

\* The second task of a lane is running, after the first one has ended.
C4_Witness ==
    \E i, j \in 1..Len(ptasks) :
        /\ i < j /\ ptasks[i].type = ptasks[j].type
        /\ ptasks[i].status \in Terminal /\ ptasks[j].status = "running"

\* C5 (as claimed): a task whose wait was ended by the timeout ends in a
\* status `timed_out`, distinct from `failed`.
C5_TimedOutStatus ==
    \A t \in Range(ptasks) :
        (pcause[t.id] = "timeout" /\ t.status # "running") => t.status = "timed_out"

\* The lane has run every task it queued to its end.
LaneTerminal(l) ==
    /\ plane[l].state = "finished"
    /\ \A k \in Held(l) : StatusAt(l, k) \in Terminal

\* C6: whatever the other lanes do (time out, fail, or never get to run), a
\* lane whose own continuations and timers run takes every one of its tasks
\* to a terminal status once executeTasksInParallel was called.
C6_OtherLanesNotBlocked ==
    \A y \in Types :
        (WF_vars(PLaneStep(y)) /\ WF_vars(PTimeout(y)))
            => [](ppc = "running" => <>LaneTerminal(y))

\* The frontend task timed out and the backend task has ended.
C6_Witness ==
    /\ \E t \in OfType("frontend") : pcause[t.id] = "timeout" /\ t.status = "failed"
    /\ Held("backend") # {} /\ LaneTerminal("backend")

\* C7: executeTasksInParallel never rejects, and once a task of a lane has
\* failed, every task queued in that lane gets started.
C7_FailureDoesNotAbortLane ==
    /\ [](ppc # "rejected")
    /\ \A l \in Types :
          (\E k \in Held(l) : StatusAt(l, k) = "failed")
              ~> (/\ plane[l].idx >= Len(plane[l].queue)
                  /\ \A k \in Held(l) : StatusAt(l, k) # "pending")

\* The first frontend task failed and the second one has been started.
C7_Witness ==
    \E i, j \in 1..Len(ptasks) :
        /\ i < j /\ ptasks[i].type = ptasks[j].type
        /\ ptasks[i].status = "failed" /\ ptasks[j].status # "pending"

(***************************************************************************)
(* Properties of NextJsTestAutomation.                                     *)
(***************************************************************************)
NxEnded == npc \in {"returned", "thrown"}

\* C9: runFullTestCycle makes at most one fix round and two runs of the test
\* suite, runs the suite again only after a run that reported failures, and,
\* once called, always ends (it returns or throws).
C9_BoundedFixIterations ==
    /\ [](nruns <= FixIterationBound + 1 /\ nfixIter <= FixIterationBound)
    /\ [][(nruns' > nruns /\ nruns >= 1) => nreport.failed > 0]_vars
    /\ (npc # "off") ~> NxEnded

\* The cycle has returned after its second run, which still reports failures.
C9_Witness == npc = "returned" /\ nruns = 2 /\ nreport.failed > 0 /\ nfixIter = 1

FixTerminal == {"resolved", "rejected"}

\* C10: the re-run of the test suite starts only in a state in which there is
\* one fix task per failed test of the preceding report and every one of them
\* has reached a terminal outcome (none in flight, none unsent).
C10_RerunAfterAllFixTasks ==
    [][(nruns' > nruns /\ nruns >= 1)
          => /\ Len(nfix) = nreport.failed
             /\ \A i \in 1..Len(nfix) : nfix[i] \in FixTerminal
             /\ nwait.state = "none"]_vars

\* The suite was re-run after two fix tasks, both ended.
C10_Witness ==
    /\ nruns = 2
    /\ Len(nfix) = 2
    /\ \A i \in 1..Len(nfix) : nfix[i] \in FixTerminal

(***************************************************************************)
(* Properties of the TaskManager API.                                      *)
(***************************************************************************)
StoredIds(m) == {t.id : t \in Range(m)}

\* The ids reached from the ids in S along at most n dependency edges between
\* stored tasks.
RECURSIVE ReachedFrom(_, _, _)
ReachedFrom(m, S, n) ==
    IF n = 0 THEN S
    ELSE ReachedFrom(m,
                     S \cup {d \in StoredIds(m) :
                                \E t \in Range(m) : t.id \in S /\ d \in Range(t.dependencies)},
                     n - 1)

Acyclic(m) ==
    \A t \in Range(m) :
        t.id \notin ReachedFrom(m, Range(t.dependencies) \cap StoredIds(m), Len(m))

\* C15 (as claimed): after any sequence of addTask calls the dependency
\* relation of the stored tasks is acyclic, an addTask that would close a
\* cycle (a task depending on itself included) being refused.
C15_DependenciesAcyclic == Acyclic(tasks)

\* C16 (as claimed): an addTask call never changes a task that is already in
\* the map: its record stays as it was.
C16_AddTaskNeverReplaces ==
    [][ tmLast'.call = "addTask" => \A i \in 1..Len(tasks) : tasks'[i] = tasks[i] ]_vars

\* C17 (as claimed): an updateTask call with an id that is not in the map ends
\* with the error UnknownTask.
C17_UnknownTaskReported ==
    (tmLast.call = "updateTask" /\ ~tmLast.found) => tmLast.outcome = "UnknownTask"

LegalTransitions ==
    { <<"pending", "in-progress">>, <<"in-progress", "completed">>,
      <<"in-progress", "failed">> }

\* C18 (as claimed): every status change made by an updateTask call is an edge
\* of the legal-transition table.
C18_OnlyLegalTransitions ==
    [][ tmLast'.call = "updateTask" =>
          \A i \in 1..Len(tasks) :
              tasks'[i].status # tasks[i].status
                  => <<tasks[i].status, tasks'[i].status>> \in LegalTransitions ]_vars

Rank(priority) == CASE priority = "high" -> 1 [] priority = "medium" -> 2 [] priority = "low" -> 3

\* C19 (as claimed): in the sequence returned by getReadyTasks no task comes
\* before a task of a higher priority.
C19_ReadyTasksByPriority ==
    LET ready == getReadyTasks(tasks)
    IN \A i, j \in 1..Len(ready) : i < j => Rank(ready[i].priority) <= Rank(ready[j].priority)

LogView(t) ==
    [id |-> t.id, status |-> t.status, dependencies |-> t.dependencies,
     result |-> IF "result" \in DOMAIN t THEN t.result ELSE Undefined]

\* C20: when an addTask call, or an updateTask call of a stored id, has
\* returned, the log file exists and lists the tasks of the map, in order,
\* with the same ids, statuses, dependencies and results.
C20_LogMirrorsTasks ==
    (tmLast.outcome = "returned" /\ (tmLast.call = "addTask" \/ tmLast.found))
        => /\ logFile.text = "json"
           /\ Len(logFile.tasks) = Len(tasks)
           /\ \A i \in 1..Len(tasks) : LogView(logFile.tasks[i]) = LogView(tasks[i])

\* An updateTask call has returned after an earlier write of the log had
\* failed: the stale file has been overwritten.
C20_Witness ==
    /\ tmLast = [call |-> "updateTask", found |-> TRUE, outcome |-> "returned"]
    /\ writeFailures = 1
    /\ Len(tasks) = 2
    /\ tasks[1].status = "completed"

(***************************************************************************)
(* Properties of the results of runFullTestCycle.                          *)
(***************************************************************************)
AgentFailures == {OperationTimeoutMessage, DefaultErrorMessage, "boom"}

\* C11 (as claimed): a fix task whose wait ended with an error event or with
\* the timeout does not make runFullTestCycle throw.
C11_FixFailureDoesNotAbort ==
    [][ (npc = "fix_wait" /\ nwait.state = "rejected" /\ nwait.reason \in AgentFailures)
            => npc' # "thrown" ]_vars

FailedIndexes(report) == {i \in 1..Len(report.results) : report.results[i].status = "failed"}

\* C12: when runFullTestCycle has returned, `success` is true exactly when
\* the last run reported no failed test, and `stats` is the report of the last
\* run: with failures left, success is false and each failing test is listed
\* in stats.results.
C12_SuccessIffNoFailures ==
    npc = "returned" =>
        /\ nsuccess <=> (nreport.failed = 0)
        /\ nstats = nreport
        /\ nsuccess <=> (FailedIndexes(nstats) = {})
        /\ Cardinality(FailedIndexes(nstats)) = nstats.failed

\* The cycle returned after the re-run, one test still failing: success is false.
C12_Witness ==
    /\ npc = "returned" /\ nruns = 2 /\ ~nsuccess
    /\ nstats.totalTests = 2 /\ FailedIndexes(nstats) = {2}

\* C13: once the first run has reported no failed test, fixFailedTests is
\* never called, no prompt goes to the fixer session, the suite is not run
\* again, the cycle is at the report step or has ended, and if it returned,
\* success is true.
C13_NoFailuresSkipsFix ==
    /\ []( (nruns = 1 /\ nreport.failed = 0) =>
              /\ nfixIter = 0 /\ nsent = <<>> /\ inflight["testFixer"] = 0
              /\ npc \in {"report", "report_wait", "report_write", "returned", "thrown"}
              /\ npc = "returned" => nsuccess )
    /\ [][ (nruns = 1 /\ nreport.failed = 0) => (nruns' = 1 /\ nreport' = nreport) ]_vars

\* The cycle returned success after a single run of two tests, none failed.
C13_Witness ==
    /\ npc = "returned" /\ nsuccess /\ nruns = 1 /\ nfixIter = 0
    /\ nstats.totalTests = 2

\* C14: when fixFailedTests has returned (every fix task ended with idle), the
\* fix prompts handed to the fixer session name exactly the results of the
\* preceding report whose status is `failed`, each of them once: as many
\* prompts as report.failed, none for a passed or skipped test.
C14_OneFixPromptPerFailedTest ==
    npc = "rerun" =>
        /\ Len(nsent) = nreport.failed
        /\ Range(nsent) = FailedIndexes(nreport)
        /\ \A i, j \in 1..Len(nsent) : nsent[i] = nsent[j] => i = j

\* fixFailedTests returned after one prompt, for the failed second test; the
\* first test had passed.
C14_Witness ==
    /\ npc = "rerun"
    /\ nsent = <<2>>
    /\ nreport.results[1].status = "passed"

(***************************************************************************)
(* Properties of the persisted log.                                        *)
(***************************************************************************)
\* C21 (as claimed): a status update whose write of the log failed does not
\* make processProject throw.
C21_FailedWriteNotFatal ==
    (tmLast.call = "updateTask" /\ tmLast.outcome = "rejected") => opc # "thrown"

\* C22: in every addTask / updateTask call during which the write of the log
\* fails, the call rejects (the caller is told) and the map holds the change
\* of the call: the task passed to addTask is stored, the status passed to
\* updateTask is set.
C22_FailedWriteKeepsChange ==
    [][ writeFailures' > writeFailures =>
          /\ tmLast'.outcome = "rejected"
          /\ tmLast'.call = "addTask" =>
                \E t \in TaskInputs :
                    tasks' = addTask(tasks, t) /\ MapGet(tasks', t.id) = t
          /\ tmLast'.call = "updateTask" =>
                \E id \in UpdateIds, u \in UpdateInputs :
                    /\ MapHas(tasks, id)
                    /\ tasks' = updateTask(tasks, id, u)
                    /\ MapGet(tasks', id).status = u.status ]_vars

\* The first addTask was rejected by a write that failed after the open: the
\* task is in the map, the log file is empty.
C22_Witness ==
    /\ tmLast = [call |-> "addTask", found |-> FALSE, outcome |-> "rejected"]
    /\ Len(tasks) = 1
    /\ logFile = Truncated

C24_ResultAccumulates ==
    [][(/\ nwait.state = "pending" /\ nwait'.state = "pending"
        /\ nwait.result \in Contents
        /\ nwait'.result # nwait.result) => nwait'.result \notin Contents]_vars

\* C25 (as claimed): with sessions that emitted nothing unprompted, every
\* task the call has run is completed when executeTasksInParallel has returned.
C25_AllCompletedWhenPrompted ==
    (ppc = "returned" /\ ~punprompted)
        => \A l \in Types : \A k \in Held(l) : StatusAt(l, k) = "completed"

\* C26: the process of the nextjs-test-automation main ends with code 0 if
\* runFullTestCycle returned success, and with another code if it returned
\* with failures left, if it threw, or if initialize threw.
C26_ExitCodeTellsSuccess ==
    nmain.pc = "exited" => (nmain.exitCode = 0 <=> (npc = "returned" /\ nsuccess))

\* The re-run after the fix round still had a failed test, the cycle returned
\* and the process has ended with code 1.
C26_Witness ==
    /\ nmain.pc = "exited" /\ nmain.exitCode = 1
    /\ npc = "returned" /\ ~nsuccess
    /\ nruns = 2 /\ nstats.failed > 0

\* C27: the call of executeTasksInParallel leaves the first task of every
\* type that has tasks running, all of them at the same time.
C27_LanesStartTogether ==
    [][(ppc = "idle" /\ ppc' = "running") =>
          \A l \in Types :
              tasksByType(ptasks, l) # <<>>
                  => MapGet(ptasks', tasksByType(ptasks, l)[1]).status = "running"]_vars

\* A frontend task and a backend task are running at the same time.
C27_Witness ==
    \E t, u \in Range(ptasks) :
        /\ t.type = "frontend" /\ u.type = "backend"
        /\ t.status = "running" /\ u.status = "running"

\* C28 (as claimed): when the nextjs-test-automation main ends after a cycle
\* that returned success = false, every session created has been destroyed
\* and the client is stopped.
C28_CleanedUpBeforeExit ==
    (nmain.pc = "exited" /\ npc = "returned" /\ ~nsuccess)
        => (nmain.destroyed = nmain.created /\ nmain.client = "stopped")

\* C29 (as claimed): every wait of processProject ends, whatever the session
\* does, a session that never answers included.
C29_EveryWaitEnds == (owait.state = "pending") ~> (owait.state # "pending")

\* C30 (as claimed): executeTasksInParallel, once called, returns, whatever
\* the sessions do (timers fire, continuations run); and at the step it
\* returns every task that was added is completed or failed.
C30_AlwaysTerminates ==
    /\ (ppc = "running") ~> (ppc = "returned")
    /\ [][(ppc = "running" /\ ppc' = "returned")
             => \A t \in Range(ptasks') : t.status \in Terminal]_vars

(***************************************************************************)
(* Properties of repeated and overlapping calls.                           *)
(***************************************************************************)
NSettled == nwait.state \in {"resolved", "rejected"}

\* C31: a call of sendAndWait that has settled keeps its outcome (resolved
\* with its value, or rejected with its reason) whatever event, timer or
\* rejected send comes later, until the awaiting code takes it; and it
\* resolves only on session.idle with no error seen, with the result text.
C31_SettlesOnce ==
    [][/\ NSettled =>
             \/ nwait'.state = "none"
             \/ /\ nwait'.state = nwait.state
                /\ nwait'.value = nwait.value
                /\ nwait'.reason = nwait.reason
       /\ (nwait.state = "pending" /\ nwait'.state = "resolved")
             => (~nwait.hasError /\ nwait'.value = nwait.result)]_vars

\* The call was rejected by an error event and the session.idle that
\* followed the error has been delivered to its listener.
C31_Witness ==
    /\ nwait.state = "rejected" /\ nwait.hasError
    /\ nwait.session = "testGenerator"
    /\ ~lateIdle["testGenerator"]

\* C32 (as claimed): a task that is completed or failed stays as it is,
\* status, output and error, under every later call of executeTasksInParallel
\* (until addTask puts a new pending task under its id).
C32_ExecutedAtMostOnce ==
    [][\A i \in 1..Len(ptasks) :
          (ptasks[i].status \in Terminal /\ ptasks'[i].status # "pending")
              => ptasks'[i] = ptasks[i]]_vars

\* C33 (as claimed): once two addTask / updateTask calls that overlapped have
\* both returned, the log file holds the tasks of the map as they are now.
C33_LastSnapshotWins ==
    (/\ Len(wpending) >= 2
     /\ \A i \in 1..Len(wpending) :
           /\ wpending[i].call \in {"addTask", "updateTask"}
           /\ wpending[i].phase = "done" /\ ~wpending[i].error)
        => logFile = Whole(JSONStringify(tasks))

\* C34 (as claimed): a sendAndWait call that began after a call on the same
\* session had ended by timeout, the prompt of that call still in progress,
\* is resolved only by the session.idle of its own prompt: not by the next
\* session.idle that ends a prompt of the session, which belongs to the prompt
\* sent first.
C34_ResolvedByOwnPrompt ==
    [][\A c \in NCalls :
          (/\ ncall[c].wait.state = "pending" /\ ncall'[c].wait.state = "resolved"
           /\ inflight'[ncall[c].wait.session] < inflight[ncall[c].wait.session])
              => ~ncall[c].behind]_vars

\* C35 (as claimed): a report returned by runTests was read from a results
\* file written by the run of the test command that this call started.
C35_ReportOfThisRun ==
    [][(nruns' = nruns + 1 /\ npc' # "thrown") => nfile'.fresh]_vars

\* The sessions of the three programs whose calls listen and then send.
ListenSessions == TestSessions \cup OrchSessions \cup MktSessions

\* A call (of sendAndWait, of a method of the orchestrator, of runAgent) is
\* pending with its listener registered on the session.
PendingOn(s) ==
    \/ \E c \in NCalls : ncall[c].wait.session = s /\ ncall[c].wait.state = "pending"
    \/ owait.session = s /\ owait.state = "pending"
    \/ s \in MktSessions /\ mkt.agent[s].listening /\ mkt.agent[s].done = "pending"

\* C36: in sendAndWait, in executeTask of the orchestrator and in runAgent
\* the step in which session.send is called and the prompt handed over leaves
\* the listener of the call registered on the session; and a session.idle
\* (for sendAndWait an error event too) emitted from then on, before
\* session.send has returned or after, settles the pending call: none is lost.
C36_ListenerBeforeSend ==
    [][\A s \in ListenSessions :
          /\ inflight'[s] > inflight[s] => PendingOn(s)'
          /\ (inflight'[s] < inflight[s] /\ ~lateIdle'[s] /\ PendingOn(s)) => ~PendingOn(s)'
          /\ (inflight'[s] < inflight[s] /\ s \in TestSessions /\ PendingOn(s))
                => ~PendingOn(s)']_vars

\* The session.idle of a task's prompt came before `await session.send`
\* returned, and executeTask's `done` is resolved with the text of the message.
C36_Witness ==
    /\ opc = "exec_sending"
    /\ owait.send = "called" /\ owait.state = "resolved"
    /\ owait.value \in Contents

====
